---- MODULE Spec2Model ----
(***************************************************************************)
(* Model of src/spheroball/driveWithJoystick.py: the script's entry        *)
(* (__main__, main), the SpheroController polling loop (control_toy), the  *)
(* calibration methods, the autonomous lap (run_autonomous_lap,            *)
(* roll_forward_rel, build_segments, tiles_to_seconds) and the battery     *)
(* monitor (print_battery_level).                                          *)
(*                                                                         *)
(* Units. Axis readings are in tenths (-10..10 for -1.0..1.0), voltages in *)
(* centivolts, tiles in tenths of a tile, SAFETY in hundredths, sleeps in  *)
(* milliseconds and so are the two timers. A duration computed by         *)
(* tiles_to_seconds is an exact fraction <<numerator, denominator>> of     *)
(* seconds.                                                                *)
(***************************************************************************)
EXTENDS Integers, Sequences, FiniteSets, TLC

\* ---------------------------------------------------------------- constants
TILE_CM == 50
RUN_SPEED == 150
SPEED_CM_PER_S == 70
SAFETY == 96
HEADING_SETTLE == 120
STABILISE == 80
TURN_SLEEP == 300
AXIS_THRESHOLD == 7
REVERSE_SPEED == 40
HEADING_STEP == 45
BATTERY_INTERVAL == 30
PULSE_SECONDS == 1
INITIAL_SPEED == 50

\* scale factors of the units above
TilesScale == 10
SafetyScale == 100
MsPerSecond == 1000

\* ------------------------------------------------------------------- bounds
\* control loop: axis readings -AxisMax (forward), 0, AxisMax (reverse), in tenths
AxisMax == 8
\* control loop: battery readings 3.4 V, 3.6 V, ... one per VoltBands + 1 values
VoltBands == 4
\* control loop: at most this many of the buttons 2, 3, 4, R2, R1, L1 are held
\* in one tick
MaxHeld == 1
\* the clock advances in steps of ClockStep milliseconds, up to MaxElapsed
\* milliseconds since the last battery report
ClockStep == 15000
MaxElapsed == 45000
\* heading conversion: base headings -MaxBase..MaxBase
MaxBase == 400
\* manual drive: axis readings -MaxAxisTried..MaxAxisTried tenths
MaxAxisTried == 10
\* battery monitor: readings VoltMin..VoltMax centivolts
VoltMin == 300
VoltMax == 450
\* duration conversion: distances 0..MaxTiles tenths of a tile, factors
\* 1..MaxFactor, speeds 1..MaxSpeedTried cm/s and SPEED_CM_PER_S
MaxTiles == 12
MaxFactor == 3
MaxSpeedTried == 4
\* battery polling: a tick without sleeps and laps takes PollTickMs milliseconds
PollTickMs == 5000
\* manual pulses: a tick without sleeps takes PulseTickMs milliseconds; the
\* loop is followed for PulseHorizon milliseconds
PulseTickMs == 400
PulseHorizon == 6000
\* calibration: headings up to MaxCalibTurn degrees either side of 0
MaxCalibTurn == 30
\* command line: up to MaxArgs words after the script's name
MaxArgs == 4

NONE == -1

VARIABLES
    pc,                 \* position of the process
    segIdx,             \* run_autonomous_lap: index of the next segment
    base_heading, speed, previous_button,
    calibration_mode, gameOn, calibrated,
    since_move_start,   \* milliseconds since move_start_time, NONE when it is None
    since_battery,      \* milliseconds since last_battery_print_time
    Y,                  \* axis 1 as read by the current tick
    phys1,              \* the physical state of button 1
    lapsThisPress,      \* laps started since button 1 was last pressed
    toyHeading, toySpeed, \* heading and speed last commanded to the toy
    log,                \* the current tick's motion, LED, matrix and battery
                        \* calls and its sleeps, in order
    tiles_in, tiles_out, \* arguments and results of the duration conversion
    argv,               \* sys.argv
    status              \* the exit status of the process, NONE while it runs

vars == <<pc, segIdx, base_heading, speed, previous_button, calibration_mode,
          gameOn, calibrated, since_move_start, since_battery, Y, phys1,
          lapsThisPress, toyHeading, toySpeed, log, tiles_in, tiles_out, argv,
          status>>

progVars == <<segIdx, base_heading, speed, previous_button, calibration_mode,
              gameOn, calibrated, since_move_start, since_battery, Y,
              toyHeading, toySpeed, log>>

\* ------------------------------------------------------------------ helpers
Min(a, b) == IF a <= b THEN a ELSE b

\* one SDK call or sleep: op, two integer arguments, a duration fraction
Cmd(op, a, b) == [op |-> op, a |-> a, b |-> b, d |-> <<0, 1>>]
CmdRoll(s, h, d) == [op |-> "roll", a |-> s, b |-> h, d |-> d]

Sleep(ms) == Cmd("sleep", ms, 0)
SetHeading(h) == Cmd("set_heading", h, 0)
SetSpeed(s) == Cmd("set_speed", s, 0)
SetFrontLed(r, g) == Cmd("set_front_led", r, g)
GetVoltage(v) == Cmd("get_battery_voltage", v, 0)
\* the matrix character in the colour with red r and green g
SetMatrixCharacter(r, g) == Cmd("set_matrix_character", r, g)

\* the heading and speed the toy holds after a sequence of calls
LastOf(idx) == CHOOSE i \in idx : \A j \in idx : j <= i

ToyHeadingAfter(h, cmds) ==
    LET idx == {i \in DOMAIN cmds : cmds[i].op \in {"set_heading", "roll"}} IN
    IF idx = {} THEN h
    ELSE LET c == cmds[LastOf(idx)] IN IF c.op = "set_heading" THEN c.a ELSE c.b

ToySpeedAfter(s, cmds) ==
    LET idx == {i \in DOMAIN cmds : cmds[i].op \in {"set_speed", "roll"}} IN
    IF idx = {} THEN s
    ELSE LET c == cmds[LastOf(idx)] IN IF c.op = "set_speed" THEN c.a ELSE 0

\* ------------------------------------------------------- autonomous helpers
\* max(1e-6, s) as a fraction
MaxSpeed(s) == IF s > 0 THEN <<s, 1>> ELSE <<1, 1000000>>

\* the conversion with Python's floor division (//) in place of the division
tiles_to_seconds_floordiv(tiles, s) ==
    LET cmNum == tiles * TILE_CM
        m == MaxSpeed(s)
    IN  <<((cmNum * m[2]) \div (TilesScale * m[1])) * SAFETY, SafetyScale>>

\* tiles in tenths of a tile, s in cm/s; the result is a fraction of seconds
tiles_to_seconds_at(tiles, s) ==
    LET cmNum == tiles * TILE_CM
        m == MaxSpeed(s)
    IN  <<cmNum * m[2] * SAFETY, TilesScale * m[1] * SafetyScale>>

tiles_to_seconds(tiles) == tiles_to_seconds_at(tiles, SPEED_CM_PER_S)

\* the conversion without the reduction modulo 360
abs_heading_unreduced(base, rel_heading_deg) == base + rel_heading_deg

abs_heading(base, rel_heading_deg) == (base + rel_heading_deg) % 360

\* the calls of roll_forward_rel, in order
roll_forward_rel(base, rel_heading_deg, tiles, spd) ==
    LET h == abs_heading(base, rel_heading_deg) IN
    << SetHeading(h),
       Sleep(HEADING_SETTLE),
       CmdRoll(spd, h, tiles_to_seconds(tiles)),
       SetSpeed(0),
       Sleep(STABILISE) >>

Seg(rel, tiles) == [rel |-> rel, tiles |-> tiles]

\* the table with its last segment left at the heading of the one before
build_segments_open ==
    << Seg(0, 30), Seg(315, 6), Seg(0, 18), Seg(315, 7), Seg(270, 40),
       Seg(225, 6), Seg(180, 22), Seg(135, 7), Seg(90, 29), Seg(45, 6),
       Seg(45, 11) >>

build_segments ==
    << Seg(0, 30), Seg(315, 6), Seg(0, 18), Seg(315, 7), Seg(270, 40),
       Seg(225, 6), Seg(180, 22), Seg(135, 7), Seg(90, 29), Seg(45, 6),
       Seg(0, 11) >>

NSegments == Len(build_segments)

\* the milliseconds the calls in l take: time.sleep sleeps, and api.roll
\* returns when its duration is over
RECURSIVE SleepMsTo(_, _)
SleepMsTo(l, i) ==
    IF i = 0 THEN 0
    ELSE SleepMsTo(l, i - 1) + (IF l[i].op = "sleep" THEN l[i].a ELSE 0)

RECURSIVE RollNumTo(_, _)
RollNumTo(l, i) ==
    IF i = 0 THEN 0
    ELSE RollNumTo(l, i - 1) + (IF l[i].op = "roll" THEN l[i].d[1] ELSE 0)

\* the denominator of every duration tiles_to_seconds computes
RollDen == tiles_to_seconds(0)[2]

Duration(l) ==
    SleepMsTo(l, Len(l)) + (RollNumTo(l, Len(l)) * MsPerSecond) \div RollDen

\* ------------------------------------------------------------------- inputs
Buttons == {"2", "3", "4", "R2", "R1", "L1"}
HeldSets == {h \in SUBSET Buttons : Cardinality(h) <= MaxHeld}
AxisValues == {-AxisMax, 0, AxisMax}
Voltages == {340 + 20 * k : k \in 0..VoltBands}
\* the battery readings with which a tick goes on: any that does not end the
\* process when the check is due, none read (NONE) when it is not
Readings(due) == IF due THEN {v \in Voltages : v >= 350} ELSE {NONE}
Speeds == {50, 90, 100, 150, 200}
Alive == {"loop", "lap"}

\* ------------------------------------------------------------ calibration
\* enter_calibration_mode(api, X): the calls, with h the heading get_heading reports
enter_calibration_cmds(h, X) ==
    << SetSpeed(0), SetFrontLed(255, 0),
       SetHeading(IF X < -AXIS_THRESHOLD THEN h - 5
                  ELSE IF X > AXIS_THRESHOLD THEN h + 5 ELSE h) >>

exit_calibration_cmds == << SetFrontLed(0, 255) >>

\* toggle_calibration_mode entering whatever the mode is
toggle_enters_always(cal) == TRUE

\* toggle_calibration_mode: the test that chooses enter_calibration_mode
toggle_enters(cal) == ~cal

\* ---------------------------------------------------------- battery monitor
\* the bands with the yellow one closed on the wrong side (3.9 <= v < 4.1)
print_battery_level_shifted(v) ==
    << GetVoltage(v) >>
    \o (IF v > 410 THEN << SetFrontLed(0, 255) >> ELSE << >>)
    \o (IF 390 <= v /\ v < 410 THEN << SetFrontLed(255, 255) >> ELSE << >>)
    \o (IF 370 < v /\ v <= 390 THEN << SetFrontLed(255, 100) >> ELSE << >>)
    \o (IF v <= 370 THEN << SetFrontLed(255, 0) >> ELSE << >>)

\* print_battery_level with reading v (centivolts): the calls, in order
print_battery_level(v) ==
    << GetVoltage(v) >>
    \o (IF v > 410 THEN << SetFrontLed(0, 255) >> ELSE << >>)
    \o (IF 390 < v /\ v <= 410 THEN << SetFrontLed(255, 255) >> ELSE << >>)
    \o (IF 370 < v /\ v <= 390 THEN << SetFrontLed(255, 100) >> ELSE << >>)
    \o (IF v <= 370 THEN << SetFrontLed(255, 0) >> ELSE << >>)

\* the battery check run on every tick
battery_due_always(since) == TRUE

\* the test of the battery check: 30 s since the last one
battery_due(since) == since >= BATTERY_INTERVAL * MsPerSecond

\* print_battery_level ends the process (sys.exit)
battery_exit(v) == v < 350

\* --------------------------------------------------------------- tick parts
\* the test without the stored reading: true on every tick while held
rising_edge_level(btn1, prev) == btn1 = 1

\* the rising-edge test of button 1
rising_edge(btn1, prev) == btn1 = 1 /\ prev = 0

\* display_number in colour (r, g, .): a call for the players 1..5 only
display_number(player, r, g) ==
    IF player \in 1..5 THEN << SetMatrixCharacter(r, g) >> ELSE << >>

\* buttons 2, 3, 4, R2: the calls of the four tests, in code order
speed_cmds(player, held) ==
    (IF "2" \in held THEN display_number(player, 255, 100) ELSE << >>)
    \o (IF "3" \in held THEN display_number(player, 255, 50) ELSE << >>)
    \o (IF "4" \in held THEN display_number(player, 255, 0) ELSE << >>)
    \o (IF "R2" \in held THEN display_number(player, 0, 255) ELSE << >>)

\* the four tests with the first button held deciding
speed_after_first_wins(s, held) ==
    IF "2" \in held THEN 100
    ELSE IF "3" \in held THEN 150
    ELSE IF "4" \in held THEN 200
    ELSE IF "R2" \in held THEN 90 ELSE s

\* buttons 2, 3, 4, R2: the stored speed after the four tests, in code order
speed_after(s, held) ==
    LET s2 == IF "2" \in held THEN 100 ELSE s
        s3 == IF "3" \in held THEN 150 ELSE s2
        s4 == IF "4" \in held THEN 200 ELSE s3
    IN  IF "R2" \in held THEN 90 ELSE s4

move(heading, s) == << SetHeading(heading), SetSpeed(s) >>

\* R1 then L1 without the reduction modulo 360
turn_base_unreduced(base, held) ==
    LET b1 == IF "R1" \in held THEN base + HEADING_STEP ELSE base
    IN  IF "L1" \in held THEN b1 - HEADING_STEP ELSE b1

\* R1 then L1: base_heading after the two tests, and their calls
turn_base(base, held) ==
    LET b1 == IF "R1" \in held THEN (base + HEADING_STEP) % 360 ELSE base
    IN  IF "L1" \in held THEN (b1 - HEADING_STEP) % 360 ELSE b1

turn_cmds(base, held) ==
    LET b1 == IF "R1" \in held THEN (base + HEADING_STEP) % 360 ELSE base
        b2 == IF "L1" \in held THEN (b1 - HEADING_STEP) % 360 ELSE b1
    IN  (IF "R1" \in held THEN move(b1, 0) \o << Sleep(TURN_SLEEP) >> ELSE << >>)
        \o (IF "L1" \in held THEN move(b2, 0) \o << Sleep(TURN_SLEEP) >> ELSE << >>)

\* the forward test with the threshold itself included (Y <= -0.7)
forward_inclusive(y) == y <= -AXIS_THRESHOLD

\* the test that ends a pulse: time.time() - move_start_time >= 1
pulse_over(since) == since >= PULSE_SECONDS * MsPerSecond

\* manual driving with axis reading y
forward(y) == y < -AXIS_THRESHOLD
reverse(y) == y > AXIS_THRESHOLD

manual_cmds(y, base, s, since) ==
    IF forward(y) THEN
        IF since = NONE THEN move(base, s)
        ELSE move(base, s)
             \o (IF pulse_over(since) THEN << SetSpeed(0) >> ELSE << >>)
    ELSE IF reverse(y) THEN move((base + 180) % 360, REVERSE_SPEED)
    ELSE << SetSpeed(0) >>

\* the move timer cleared by every tick whose reading is not forward
manual_since_cleared(y, since) ==
    IF forward(y) THEN
        IF since = NONE THEN 0
        ELSE IF pulse_over(since) THEN NONE ELSE since
    ELSE NONE

manual_since(y, since) ==
    IF forward(y) THEN
        IF since = NONE THEN 0
        ELSE IF pulse_over(since) THEN NONE ELSE since
    ELSE IF reverse(y) THEN since
    ELSE NONE

\* a running move timer ms milliseconds later; a timer past the pulse length
\* is kept at the pulse length (the code only tests it against 1 s)
timer_after(since, ms) ==
    IF since = NONE THEN NONE ELSE Min(since + ms, PULSE_SECONDS * MsPerSecond)

\* the end-of-tick read-back: base_heading = api.get_heading()
read_back(h) == h

\* ------------------------------------------------------------------- script
\* other calls of the script: the usage line, pygame.init and
\* pygame.joystick.init, scanner.find_toy
PrintUsage == Cmd("print_usage", 0, 0)
PygameInit == Cmd("pygame_init", 0, 0)
FindToy == Cmd("find_toy", 0, 0)

\* command-line words; int() accepts the decimal ones
ArgTokens == {"SB-9DD8", "0", "1"}
is_int(w) == w \in {"0", "1"}
to_int(w) == IF w = "0" THEN 0 ELSE 1

\* sys.argv of a usual start: script, toy name, joystick index, player
UsualArgv == << "script.py", "SB-9DD8", "0", "1" >>

\* --------------------------------------------------------------------- Init
\* the fields of SpheroController.__init__, with the given position and inputs
Start(p, idx, base, spd, since, y) ==
    /\ pc = p
    /\ segIdx = idx
    /\ base_heading = base
    /\ speed = spd
    /\ previous_button = 0
    /\ calibration_mode = FALSE
    /\ gameOn = FALSE
    /\ calibrated = FALSE
    /\ since_move_start = since
    /\ since_battery = 0
    /\ Y = y
    /\ phys1 = 0
    /\ lapsThisPress = NONE
    /\ toyHeading = base
    /\ toySpeed = 0
    /\ log = << >>
    /\ tiles_out = << >>
    /\ status = NONE

Init ==
    /\ Start("main", 0, 0, INITIAL_SPEED, NONE, 0)
    /\ tiles_in = << >>
    /\ argv = UsualArgv

envVars == <<phys1, lapsThisPress>>
tileVars == <<tiles_in, tiles_out>>
scriptVars == <<argv, status>>

\* ----------------------------------------------------------- process end
\* the process has ended in position p after the calls in cmds: its fields
\* exist no longer and are given the values they had at construction
Gone(p, cmds) ==
    /\ pc' = p
    /\ log' = cmds
    /\ segIdx' = 0
    /\ base_heading' = 0
    /\ speed' = INITIAL_SPEED
    /\ previous_button' = 0
    /\ calibration_mode' = FALSE
    /\ gameOn' = FALSE
    /\ calibrated' = FALSE
    /\ since_move_start' = NONE
    /\ since_battery' = 0
    /\ Y' = 0
    /\ toyHeading' = 0
    /\ toySpeed' = 0
    /\ phys1' = 0
    /\ lapsThisPress' = NONE
    /\ status' = 1
    /\ UNCHANGED <<tileVars, argv>>

\* the block under __main__ with pygame initialised before the words of
\* sys.argv are counted
Script_init_first ==
    /\ pc = "script"
    /\ IF Len(argv) < 4 THEN
          /\ pc' = "usage_exit"
          /\ status' = 1
          /\ log' = << PygameInit, PrintUsage >>
          /\ UNCHANGED <<segIdx, base_heading, speed, previous_button,
                         calibration_mode, gameOn, calibrated, since_move_start,
                         since_battery, Y, toyHeading, toySpeed, envVars, tileVars,
                         argv>>
       ELSE IF ~is_int(argv[3]) \/ ~is_int(argv[4]) THEN
          Gone("crashed", << >>)
       ELSE
          /\ pc' = "main"
          /\ UNCHANGED <<progVars, envVars, tileVars, scriptVars>>

\* the block under __main__: fewer than four words in sys.argv print the
\* usage line and exit with status 1; int() of the joystick index or of the
\* player raises ValueError on a word that is no number; otherwise main runs
Script ==
    /\ pc = "script"
    /\ IF Len(argv) < 4 THEN
          /\ pc' = "usage_exit"
          /\ status' = 1
          /\ log' = << PrintUsage >>
          /\ UNCHANGED <<segIdx, base_heading, speed, previous_button,
                         calibration_mode, gameOn, calibrated, since_move_start,
                         since_battery, Y, toyHeading, toySpeed, envVars, tileVars,
                         argv>>
       ELSE IF ~is_int(argv[3]) \/ ~is_int(argv[4]) THEN
          Gone("crashed", << >>)
       ELSE
          /\ pc' = "main"
          /\ UNCHANGED <<progVars, envVars, tileVars, scriptVars>>

\* ------------------------------------------------------------------ startup
\* main: pygame is initialised; with no joystick main returns; a joystick
\* index beyond the joysticks present raises in pygame.joystick.Joystick;
\* discover_toy is called and, when it fails (caught, toy stays None), main
\* returns; otherwise control_toy is entered
Main ==
    /\ pc = "main"
    /\ \E joysticks \in 0..1, found \in BOOLEAN :
         IF joysticks = 0 THEN
            /\ pc' = "returned" /\ status' = 0
            /\ log' = << PygameInit >>
            /\ UNCHANGED <<segIdx, base_heading, speed, previous_button,
                           calibration_mode, gameOn, calibrated, since_move_start,
                           since_battery, Y, toyHeading, toySpeed, envVars>>
         ELSE IF to_int(argv[3]) >= joysticks THEN
            Gone("crashed", << PygameInit >>)
         ELSE
            /\ pc' = IF found THEN "control_toy" ELSE "returned"
            /\ status' = IF found THEN status ELSE 0
            /\ log' = << PygameInit, FindToy >>
            /\ UNCHANGED <<segIdx, base_heading, speed, previous_button,
                           calibration_mode, gameOn, calibrated, since_move_start,
                           since_battery, Y, toyHeading, toySpeed, envVars>>
    /\ UNCHANGED <<tileVars, argv>>

\* control_toy up to the loop: connect_toy, set_number, display_number,
\* enter_calibration_mode(api, 0), exit_calibration_mode. A failing
\* SpheroEduAPI(...) is caught in connect_toy, which then returns None, and
\* "with None" raises; a failing connection raises in the with statement.
ControlToySetup ==
    /\ pc = "control_toy"
    /\ \E outcome \in {"ok", "constructor_raises", "connect_raises"} :
         IF outcome = "ok" THEN
            LET cmds == display_number(to_int(argv[4]), 255, 0)
                        \o enter_calibration_cmds(toyHeading, 0)
                        \o exit_calibration_cmds
            IN  /\ pc' = "loop"
                /\ base_heading' = toyHeading
                /\ calibration_mode' = FALSE
                /\ gameOn' = TRUE
                /\ calibrated' = TRUE
                /\ toyHeading' = ToyHeadingAfter(toyHeading, cmds)
                /\ toySpeed' = ToySpeedAfter(toySpeed, cmds)
                /\ since_battery' = 0
                /\ since_move_start' = NONE
                /\ log' = cmds
                /\ UNCHANGED <<segIdx, speed, previous_button, Y>>
         ELSE /\ pc' = "connect_failed"
              /\ UNCHANGED progVars
    /\ status' = IF pc' = "connect_failed" THEN 1 ELSE status
    /\ UNCHANGED <<envVars, tileVars, argv>>

\* -------------------------------------------------------------- environment
\* The operator works button 1. While the loop polls, a button event comes
\* only after a tick has read the previous one; a lap blocks the loop long
\* enough for any number of events.
Press1 ==
    /\ pc \in Alive
    /\ phys1 = 0
    /\ pc = "loop" => previous_button = phys1
    /\ phys1' = 1
    /\ lapsThisPress' = 0
    /\ UNCHANGED <<pc, progVars, tileVars, scriptVars>>

Release1 ==
    /\ pc \in Alive
    /\ phys1 = 1
    /\ pc = "loop" => previous_button = phys1
    /\ phys1' = 0
    /\ UNCHANGED <<pc, progVars, lapsThisPress, tileVars, scriptVars>>

\* time passes; the loop polls more often than once per ClockStep, a lap blocks
Advance ==
    /\ pc \in Alive
    /\ since_battery + ClockStep <= MaxElapsed
    /\ pc = "loop" => ~battery_due(since_battery)
    /\ since_battery' = since_battery + ClockStep
    /\ since_move_start' = timer_after(since_move_start, ClockStep)
    /\ UNCHANGED <<pc, segIdx, base_heading, speed, previous_button,
                   calibration_mode, gameOn, calibrated, Y, toyHeading, toySpeed,
                   log, envVars, tileVars, scriptVars>>

\* ------------------------------------------------------------- control loop
\* an SDK call of the loop or of a lap raises (the toy is out of reach): no
\* try encloses it, so the exception leaves control_toy through its finally
\* clause and ends the process
SdkRaises ==
    /\ pc \in Alive
    /\ Gone("crashed", << >>)

\* the calls of a tick before button 1 is tested
head_cmds(due, v) == IF due THEN print_battery_level(v) ELSE << >>

\* the tick from the button-2 test to the read-back, after the calls in
\* prefix; the move timer is tested after the sleeps and rolls of the tick
TickTail(prefix, btn1, held, y) ==
    LET base1 == turn_base(base_heading, held)
        spd == speed_after(speed, held)
        before == prefix \o speed_cmds(to_int(argv[4]), held)
                  \o turn_cmds(base_heading, held)
        since == timer_after(since_move_start, Duration(before))
        cmds == before \o manual_cmds(y, base1, spd, since)
        h == ToyHeadingAfter(toyHeading, cmds)
    IN  /\ pc' = "tick_done"
        /\ segIdx' = 0
        /\ previous_button' = btn1
        /\ speed' = spd
        /\ since_move_start' = manual_since(y, since)
        /\ Y' = y
        /\ toyHeading' = h
        /\ toySpeed' = ToySpeedAfter(toySpeed, cmds)
        /\ base_heading' = read_back(h)
        /\ log' = cmds

\* a tick in which the battery check ends the process (sys.exit)
TickExit ==
    /\ pc = "loop"
    /\ battery_due(since_battery)
    /\ \E v \in Voltages :
         /\ battery_exit(v)
         /\ Gone("exited", print_battery_level(v))

\* a whole tick without a rising edge of button 1
Tick ==
    /\ pc = "loop"
    /\ ~rising_edge(phys1, previous_button)
    /\ LET due == battery_due(since_battery) IN
       \E y \in AxisValues, held \in HeldSets, v \in Readings(due) :
         /\ since_battery' = IF due THEN 0 ELSE since_battery
         /\ TickTail(head_cmds(due, v), phys1, held, y)
    /\ UNCHANGED <<calibration_mode, gameOn, calibrated, envVars, tileVars, scriptVars>>

\* a tick with a rising edge of button 1, up to the call of run_autonomous_lap
TickLapStart ==
    /\ pc = "loop"
    /\ rising_edge(phys1, previous_button)
    /\ LET due == battery_due(since_battery) IN
       \E y \in AxisValues, v \in Readings(due) :
         /\ since_battery' = IF due THEN 0 ELSE since_battery
         /\ Y' = y
         /\ log' = head_cmds(due, v)
    /\ pc' = "lap"
    /\ segIdx' = 1
    /\ lapsThisPress' = Min(lapsThisPress + 1, 2)
    /\ UNCHANGED <<base_heading, speed, previous_button, calibration_mode, gameOn,
                   calibrated, since_move_start, toyHeading, toySpeed, phys1,
                   tileVars, scriptVars>>

\* a lap that gives up when it finds button 1 pressed anew
LapSegment_cancellable ==
    /\ pc = "lap"
    /\ segIdx <= NSegments
    /\ LET seg == build_segments[segIdx]
           cmds == roll_forward_rel(base_heading, seg.rel, seg.tiles, RUN_SPEED)
           cancel == phys1 = 1 /\ lapsThisPress = 0
       IN  /\ log' = IF cancel THEN log ELSE log \o cmds
           /\ toyHeading' = IF cancel THEN toyHeading ELSE ToyHeadingAfter(toyHeading, cmds)
           /\ toySpeed' = IF cancel THEN toySpeed ELSE ToySpeedAfter(toySpeed, cmds)
           /\ segIdx' = IF cancel THEN NSegments + 1 ELSE segIdx + 1
    /\ UNCHANGED <<pc, base_heading, speed, previous_button, calibration_mode,
                   gameOn, calibrated, since_move_start, since_battery, Y,
                   envVars, tileVars, scriptVars>>

\* run_autonomous_lap: one iteration of its loop over the segments
LapSegment ==
    /\ pc = "lap"
    /\ segIdx <= NSegments
    /\ LET seg == build_segments[segIdx]
           cmds == roll_forward_rel(base_heading, seg.rel, seg.tiles, RUN_SPEED)
       IN  /\ log' = log \o cmds
           /\ toyHeading' = ToyHeadingAfter(toyHeading, cmds)
           /\ toySpeed' = ToySpeedAfter(toySpeed, cmds)
    /\ segIdx' = segIdx + 1
    /\ UNCHANGED <<pc, base_heading, speed, previous_button, calibration_mode,
                   gameOn, calibrated, since_move_start, since_battery, Y,
                   envVars, tileVars, scriptVars>>

\* the end of run_autonomous_lap (set_speed(0)) and the rest of its tick; the
\* button-1 reading stored in previous_button is the one taken before the lap
TickAfterLap ==
    /\ pc = "lap"
    /\ segIdx = NSegments + 1
    /\ \E held \in HeldSets :
         TickTail(log \o << SetSpeed(0) >>, 1, held, Y)
    /\ UNCHANGED <<calibration_mode, gameOn, calibrated, since_battery, envVars,
                   tileVars, scriptVars>>

\* back to the test of the while loop (is_running is never cleared): the next
\* tick starts with no calls made and reads the axis afresh
LoopBack ==
    /\ pc = "tick_done"
    /\ pc' = "loop"
    /\ log' = << >>
    /\ Y' = 0
    /\ UNCHANGED <<segIdx, base_heading, speed, previous_button, calibration_mode,
                   gameOn, calibrated, since_move_start, since_battery, toyHeading,
                   toySpeed, envVars, tileVars, scriptVars>>

Next ==
    \/ Main
    \/ ControlToySetup
    \/ Press1
    \/ Release1
    \/ Advance
    \/ SdkRaises
    \/ TickExit
    \/ Tick
    \/ TickLapStart
    \/ LapSegment
    \/ TickAfterLap
    \/ LoopBack

Spec == Init /\ [][Next]_vars

\* ------------------------------------------------------ heading conversion
\* run_autonomous_lap called with any base heading
InitRoll ==
    /\ \E b \in -MaxBase..MaxBase : Start("lap", 1, b, INITIAL_SPEED, NONE, 0)
    /\ tiles_in = << >>
    /\ argv = UsualArgv

NextRoll == LapSegment

SpecRoll == InitRoll /\ [][NextRoll]_vars

\* the calls of a lap in a log: from its first set_heading on
LapPart(l) ==
    LET idx == {i \in DOMAIN l : l[i].op = "set_heading"} IN
    IF idx = {} THEN << >>
    ELSE SubSeq(l, CHOOSE i \in idx : \A j \in idx : i <= j, Len(l))

\* the segment to which the i-th call of a lap belongs (five calls per segment)
SegmentOf(i) == build_segments[((i - 1) \div 5) + 1]

\* C3: every heading a lap passes to set_heading and to roll lies in 0..359 and
\* differs from base_heading + rel_heading by a multiple of 360, for every
\* integer base heading and every segment of the table.
C3_HeadingInRange ==
    pc = "lap" =>
        \A i \in DOMAIN log :
            LET c == log[i]
                h == IF c.op = "roll" THEN c.b ELSE c.a
            IN  c.op \in {"set_heading", "roll"} =>
                    /\ h \in 0..359
                    /\ \E k \in -3..3 : h = base_heading + SegmentOf(i).rel + 360 * k

\* a lap run to its end from a negative base heading, whose second segment
\* (relative heading 315) was driven at 270
C3_Witness ==
    /\ pc = "lap" /\ segIdx = NSegments + 1
    /\ base_heading = -HEADING_STEP
    /\ log[6].a = 270 /\ log[8].b = 270

\* ----------------------------------------------------- duration conversion
SpeedsTried == (1..MaxSpeedTried) \cup {SPEED_CM_PER_S}

InitTiles ==
    /\ Start("convert", 0, 0, INITIAL_SPEED, NONE, 0)
    /\ \E a \in 0..MaxTiles, b \in 0..MaxTiles, k \in 1..MaxFactor, s \in SpeedsTried :
         /\ a <= b
         /\ tiles_in = [a |-> a, b |-> b, k |-> k, s |-> s]
    /\ argv = UsualArgv

\* tiles_to_seconds applied to a, b, 0 and k * a at speed s, and to a at k * s
Convert ==
    /\ pc = "convert"
    /\ pc' = "converted"
    /\ tiles_out' = [da |-> tiles_to_seconds_at(tiles_in.a, tiles_in.s),
                     db |-> tiles_to_seconds_at(tiles_in.b, tiles_in.s),
                     d0 |-> tiles_to_seconds_at(0, tiles_in.s),
                     dka |-> tiles_to_seconds_at(tiles_in.k * tiles_in.a, tiles_in.s),
                     dks |-> tiles_to_seconds_at(tiles_in.a, tiles_in.k * tiles_in.s)]
    /\ UNCHANGED <<progVars, envVars, tiles_in, scriptVars>>

NextTiles == Convert

SpecTiles == InitTiles /\ [][NextTiles]_vars

\* C10: over exact fractions, tiles_to_seconds is monotonic (a <= b gives
\* duration(a) <= duration(b)), maps 0 tiles to 0 s, is linear in the distance
\* (duration(k * a) = k * duration(a)) and inverse in the speed constant
\* (duration at speed k * s = duration at speed s, divided by k).
C10_Linear ==
    pc = "converted" =>
        LET o == tiles_out IN
        /\ o.da[2] > 0 /\ o.db[2] = o.da[2] /\ o.d0[2] = o.da[2] /\ o.dka[2] = o.da[2]
        /\ o.da[1] <= o.db[1]
        /\ o.d0[1] = 0
        /\ o.dka[1] = tiles_in.k * o.da[1]
        /\ o.dks[1] = o.da[1] /\ o.dks[2] = tiles_in.k * o.da[2]

\* 0.6 tiles at 70 cm/s take 28800/70000 s (0.411 s), 1.8 tiles three times that
C10_Witness ==
    /\ pc = "converted"
    /\ tiles_in = [a |-> 6, b |-> 12, k |-> 3, s |-> SPEED_CM_PER_S]
    /\ tiles_out.da = <<28800, 70000>>
    /\ tiles_out.dka = <<86400, 70000>>

\* ---------------------------------------------------------- battery monitor
InitBattery ==
    /\ Start("battery", 0, 0, INITIAL_SPEED, NONE, 0)
    /\ tiles_in = << >>
    /\ argv = UsualArgv

\* print_battery_level with any reading
BatteryCheck ==
    /\ pc = "battery"
    /\ \E v \in VoltMin..VoltMax :
         /\ log' = print_battery_level(v)
         /\ pc' = IF battery_exit(v) THEN "exited" ELSE "checked"
    /\ UNCHANGED <<segIdx, base_heading, speed, previous_button, calibration_mode,
                   gameOn, calibrated, since_move_start, since_battery, Y,
                   toyHeading, toySpeed, envVars, tileVars, scriptVars>>

NextBattery == BatteryCheck

SpecBattery == InitBattery /\ [][NextBattery]_vars

IsLed(c) == c.op = "set_front_led"

\* C5: every battery reading makes print_battery_level call set_front_led
\* exactly once, with the colour of its band: green above 4.1 V, yellow in
\* (3.9, 4.1], orange in (3.7, 3.9], red at or below 3.7 V.
C5_OneLedPerReading ==
    pc \in {"checked", "exited"} =>
        LET v == log[1].a
            leds == SelectSeq(log, IsLed)
        IN  /\ log[1].op = "get_battery_voltage"
            /\ Len(leds) = 1
            /\ v > 410 => leds[1] = SetFrontLed(0, 255)
            /\ (390 < v /\ v <= 410) => leds[1] = SetFrontLed(255, 255)
            /\ (370 < v /\ v <= 390) => leds[1] = SetFrontLed(255, 100)
            /\ v <= 370 => leds[1] = SetFrontLed(255, 0)

\* a reading on a band edge: 4.10 V is yellow, 3.90 V is orange, in two runs
C5_Witness ==
    /\ pc = "checked"
    /\ \/ log = << GetVoltage(410), SetFrontLed(255, 255) >>
       \/ log = << GetVoltage(390), SetFrontLed(255, 100) >>

\* ------------------------------------------------------------ manual drive
Headings == {HEADING_STEP * k : k \in 0..7}
AxisTried == -MaxAxisTried..MaxAxisTried

\* the loop with any base heading, stored speed and move timer
InitManual ==
    /\ \E b \in Headings, s \in Speeds, since \in {NONE, 0, PULSE_SECONDS * MsPerSecond} :
         Start("manual", 0, b, s, since, 0)
    /\ tiles_in = << >>
    /\ argv = UsualArgv

\* a tick with no button held and no battery check due, for any axis reading
ManualTick ==
    /\ pc = "manual"
    /\ \E y \in AxisTried : TickTail(<< >>, 0, {}, y)
    /\ UNCHANGED <<calibration_mode, gameOn, calibrated, since_battery, envVars,
                   tileVars, scriptVars>>

NextManual == ManualTick

SpecManual == InitManual /\ [][NextManual]_vars

Abs(y) == IF y < 0 THEN -y ELSE y

\* C4 as stated: a reading beyond the threshold is passed through unchanged,
\* so the motion commanded by a tick is determined by the actual axis value: no
\* other reading beyond the threshold would have led to the same calls.
C4_Original ==
    [][(pc = "manual" /\ Abs(Y') > AXIS_THRESHOLD) =>
          \A y \in AxisTried :
              (y # Y' /\ Abs(y) > AXIS_THRESHOLD) =>
                  manual_cmds(y, base_heading, speed, since_move_start) # log']_vars

\* C4 amended: a reading within the threshold (|Y| <= 0.7) commands speed 0
\* and no heading; beyond the threshold only the sign of the reading is used:
\* Y < -0.7 commands base_heading at the stored speed (followed by a stop when
\* the pulse has lasted a second), Y > 0.7 commands base_heading + 180 at
\* speed 40, whatever the magnitude of Y.
C4_SignOnly ==
    [][pc = "manual" =>
          /\ Abs(Y') <= AXIS_THRESHOLD => log' = << SetSpeed(0) >>
          /\ Y' < -AXIS_THRESHOLD =>
                log' \in { << SetHeading(base_heading), SetSpeed(speed) >>,
                           << SetHeading(base_heading), SetSpeed(speed), SetSpeed(0) >> }
          /\ Y' > AXIS_THRESHOLD =>
                log' = << SetHeading((base_heading + 180) % 360), SetSpeed(40) >>]_vars

\* ticks read exactly on the threshold and just beyond it have run
C4_Witness ==
    /\ pc = "tick_done"
    /\ \/ Y = -AXIS_THRESHOLD /\ log = << SetSpeed(0) >>
       \/ Y = -(AXIS_THRESHOLD + 1) /\ log = << SetHeading(90), SetSpeed(200) >>
       \/ Y = MaxAxisTried /\ log = << SetHeading(270), SetSpeed(40) >>

\* ------------------------------------------------------------ control loop:
\* ------------------------------------------------------------ properties
Running == {"loop", "lap", "tick_done"}

HasRoll(l) == \E i \in DOMAIN l : l[i].op = "roll"
HasTurn(l) == \E i \in DOMAIN l : l[i] = Sleep(TURN_SLEEP)

\* C1 as stated: every press-and-release cycle of button 1 starts exactly one
\* lap (once a press has been released, one lap was started during it).
C1_Original ==
    (pc \in Running /\ phys1 = 0 /\ lapsThisPress # NONE) => lapsThisPress = 1

\* C1 amended: a press-and-release cycle starts at most one lap, however long
\* the button is held across ticks; a lap starts exactly in a tick that reads
\* button 1 pressed while the stored reading is released, and the stored
\* reading turns from released to pressed only at the end of such a tick. (A
\* press that follows a release no tick has read - both fall into a blocking
\* lap - starts none.)
C1_AtMostOnce ==
    [][/\ lapsThisPress' <= 1
       /\ (pc = "loop" /\ pc' = "lap") =>
              (phys1 = 1 /\ previous_button = 0 /\ lapsThisPress' = 1)
       /\ (pc = "loop" /\ phys1 = 1 /\ previous_button = 0 /\ pc' \in Running) =>
              (pc' \in {"loop", "lap"} /\ previous_button' = 0)
       /\ (previous_button = 0 /\ previous_button' = 1) =>
              (pc = "lap" /\ segIdx = NSegments + 1)]_vars

\* the button is still held, ticks after the tick that ran its lap
C1_Witness ==
    /\ pc = "tick_done" /\ ~HasRoll(log)
    /\ phys1 = 1 /\ previous_button = 1 /\ lapsThisPress = 1

\* C2 as stated: in the loop base_heading changes only by an R1 or L1 press,
\* by 45 degrees either way; every other step leaves it unchanged.
C2_Original ==
    [][(pc \in Running /\ pc' \in Running) =>
          \/ base_heading' = base_heading
          \/ /\ HasTurn(log')
             /\ (base_heading' - base_heading) % 360 \in {HEADING_STEP, 360 - HEADING_STEP}]_vars

\* C6 as stated: once in the loop, the process ends only by a battery check
\* that reads less than 3.5 V.
C6_Original ==
    pc \in {"exited", "crashed"} =>
        /\ log # << >>
        /\ log[1].op = "get_battery_voltage"
        /\ log[1].a < 350

\* C7 as stated: a failing SDK call is caught where it is made and the
\* controller goes on: no failure ends the process.
C7_Original == pc \notin {"connect_failed", "crashed"}

\* the calls of segment i of a lap driven from base heading b
ExpectedCalls(b, i) ==
    LET seg == build_segments[i]
        h == (b + seg.rel) % 360
    IN  << SetHeading(h), Sleep(HEADING_SETTLE),
           CmdRoll(RUN_SPEED, h, tiles_to_seconds(seg.tiles)), SetSpeed(0),
           Sleep(STABILISE) >>

\* the lap part of log l is the first n segments, in table order
LapInOrder(l, n, b) ==
    /\ Len(LapPart(l)) = 5 * n
    /\ \A i \in 1..n : SubSeq(LapPart(l), 5 * i - 4, 5 * i) = ExpectedCalls(b, i)

C9_Original ==
    pc = "lap" =>
        /\ segIdx = 1 => toySpeed = 0
        /\ LapInOrder(log, segIdx - 1, base_heading)

\* ------------------------------------------------------------ command line
ArgLists == UNION {[1..n -> ArgTokens] : n \in 0..MaxArgs}

\* the script started with any words after its name
InitScript ==
    /\ Start("script", 0, 0, INITIAL_SPEED, NONE, 0)
    /\ tiles_in = << >>
    /\ \E a \in ArgLists : argv = << "script.py" >> \o a

NextScript == Script \/ Main

SpecScript == InitScript /\ [][NextScript]_vars

\* C11: started with fewer than three arguments (sys.argv shorter than four
\* words) the script prints the usage line and exits with status 1, and that
\* is all it does: pygame is not initialised, no toy is looked for and no
\* command is sent, then or later.
C11_UsageExit ==
    [][/\ (pc = "script" /\ Len(argv) < 4) =>
             /\ pc' = "usage_exit" /\ status' = 1
             /\ log' = << PrintUsage >>
             /\ UNCHANGED <<toyHeading, toySpeed, base_heading, gameOn>>
       /\ pc = "usage_exit" => UNCHANGED vars
       /\ pc' = "usage_exit" => (pc = "script" /\ Len(argv) < 4)]_vars

\* started with a toy name and a joystick index but no player
C11_Witness ==
    /\ pc = "usage_exit" /\ status = 1
    /\ argv = << "script.py", "SB-9DD8", "0" >>
    /\ log = << PrintUsage >>

\* ---------------------------------------------------------- battery polling
\* The loop on a clock: a tick takes tick_ms milliseconds and the time of its
\* sleeps and rolls. The next tick starts that much later.
Elapse(tick_ms) ==
    /\ pc = "tick_done"
    /\ pc' = "loop"
    /\ since_battery' = since_battery + tick_ms + Duration(log)
    /\ since_move_start' = timer_after(since_move_start, tick_ms)
    /\ log' = << >>
    /\ Y' = 0
    /\ UNCHANGED <<segIdx, base_heading, speed, previous_button, calibration_mode,
                   gameOn, calibrated, toyHeading, toySpeed, envVars, tileVars,
                   scriptVars>>

\* the operator works button 1, R1 and L1 only: the stick stays neutral and no
\* speed button is held
PollTick == Tick /\ Y' = 0 /\ speed' = speed
PollLapStart == TickLapStart /\ Y' = 0
PollAfterLap == TickAfterLap /\ speed' = speed
PollElapse == Elapse(PollTickMs)

\* the loop as control_toy enters it
InitPoll ==
    /\ Start("control_toy", 0, 0, INITIAL_SPEED, NONE, 0)
    /\ tiles_in = << >>
    /\ argv = UsualArgv

NextPoll ==
    \/ ControlToySetup
    \/ Press1
    \/ Release1
    \/ TickExit
    \/ PollTick
    \/ PollLapStart
    \/ LapSegment
    \/ PollAfterLap
    \/ PollElapse

SpecPoll == InitPoll /\ [][NextPoll]_vars

HasBatteryCheck(l) == \E i \in DOMAIN l : l[i].op = "get_battery_voltage"

\* the calls of a whole lap, and the time they take
RECURSIVE LapCalls(_)
LapCalls(n) == IF n = 0 THEN << >> ELSE LapCalls(n - 1) \o ExpectedCalls(0, n)

LapMs == Duration(LapCalls(NSegments))

\* C12 as stated: a battery check is made no sooner than 30 s after the
\* previous one (or after the loop started) and no later than 30 s plus one
\* ordinary tick, laps and R1/L1 presses included.
C12_Original ==
    [][(pc = "loop" /\ HasBatteryCheck(log')) =>
          /\ since_battery >= BATTERY_INTERVAL * MsPerSecond
          /\ since_battery <= BATTERY_INTERVAL * MsPerSecond + PollTickMs]_vars

\* C12 amended: a battery check is made by exactly those ticks that start
\* 30 s or more after the tick of the previous check (or after the loop
\* started), so never sooner than 30 s; it is late by less than the length
\* of the tick before it, which is an ordinary tick plus 0.3 s for each of R1
\* and L1 held in it plus the time of a lap started in it (14.68 s: 12.48 s
\* of rolls and 22 sleeps).
C12_DelayedByOneTick ==
    [][/\ (pc = "loop" /\ pc' \in {"tick_done", "lap"}) =>
             (HasBatteryCheck(log') <=> since_battery >= BATTERY_INTERVAL * MsPerSecond)
       /\ (pc = "loop" /\ HasBatteryCheck(log')) => since_battery' = 0
       /\ (pc = "tick_done" /\ pc' = "loop") =>
             /\ since_battery' < BATTERY_INTERVAL * MsPerSecond + PollTickMs + Duration(log)
             /\ Duration(log) <= LapMs + 2 * TURN_SLEEP
             /\ HasRoll(log) => Duration(log) >= LapMs
             /\ (~HasRoll(log) /\ ~HasTurn(log)) => Duration(log) = 0]_vars

\* a tick is about to make a check that a lap has delayed by more than an
\* ordinary tick
C12_Witness ==
    /\ pc = "loop"
    /\ since_battery >= BATTERY_INTERVAL * MsPerSecond + LapMs
    /\ previous_button = 1

\* C13: in every reachable state of the controller base_heading is an integer
\* in 0..359: through calibration at start-up, R1/L1 presses, manual forward
\* and reverse drive, laps and the end-of-tick read-back of the heading last
\* commanded to the toy.
C13_BaseInRange == base_heading \in 0..359

\* a tick has turned the reference with L1 from 0 down to 315 and read it back
C13_Witness ==
    /\ pc = "tick_done" /\ HasTurn(log)
    /\ base_heading = 360 - HEADING_STEP
    /\ toyHeading = base_heading

\* C15: a lap does not modify base_heading between its first and its last
\* segment, and with the stick neutral and neither R1 nor L1 held the tick
\* that ran the lap ends with base_heading as it was when the lap started, the
\* heading last commanded to the toy being the last segment's absolute
\* heading.
C15_LapKeepsReference ==
    [][/\ (pc = "lap" /\ pc' = "lap") => base_heading' = base_heading
       /\ (pc = "lap" /\ pc' = "tick_done" /\ Y = 0 /\ ~HasTurn(log')) =>
             /\ base_heading' = base_heading
             /\ toyHeading' = abs_heading(base_heading, build_segments[NSegments].rel)]_vars

\* the tick of a lap driven from reference 90 has ended, stick neutral, no turn
C15_Witness ==
    /\ pc = "tick_done" /\ HasRoll(log) /\ ~HasTurn(log)
    /\ Y = 0
    /\ base_heading = 2 * HEADING_STEP
    /\ toyHeading = base_heading

\* -------------------------------------------------------------- calibration
CalibStates == {"calib", "entered", "exited", "toggled"}

\* enter_calibration_mode(api, X)
Enter(p, X) ==
    LET cmds == enter_calibration_cmds(toyHeading, X) IN
    /\ Abs(ToyHeadingAfter(toyHeading, cmds)) <= MaxCalibTurn
    /\ pc' = p
    /\ calibration_mode' = TRUE
    /\ gameOn' = FALSE
    /\ base_heading' = toyHeading
    /\ toyHeading' = ToyHeadingAfter(toyHeading, cmds)
    /\ toySpeed' = ToySpeedAfter(toySpeed, cmds)
    /\ log' = cmds
    /\ UNCHANGED <<segIdx, speed, previous_button, calibrated, since_move_start,
                   since_battery, Y, envVars, tileVars, scriptVars>>

\* exit_calibration_mode(api)
Exit(p) ==
    /\ pc' = p
    /\ calibrated' = TRUE
    /\ calibration_mode' = FALSE
    /\ gameOn' = TRUE
    /\ log' = exit_calibration_cmds
    /\ UNCHANGED <<segIdx, base_heading, speed, previous_button, since_move_start,
                   since_battery, Y, toyHeading, toySpeed, envVars, tileVars,
                   scriptVars>>

EnterCalibration ==
    /\ pc \in CalibStates
    /\ \E X \in AxisValues : Enter("entered", X)

ExitCalibration ==
    /\ pc \in CalibStates
    /\ Exit("exited")

\* toggle_calibration_mode(api, Y)
ToggleCalibration ==
    /\ pc \in CalibStates
    /\ \E y \in AxisValues :
         IF toggle_enters(calibration_mode) THEN Enter("toggled", y)
         ELSE Exit("toggled")

\* a new controller, either handed to control_toy or called from outside
InitCalib ==
    /\ \E p \in {"calib", "control_toy"} : Start(p, 0, 0, INITIAL_SPEED, NONE, 0)
    /\ tiles_in = << >>
    /\ argv = UsualArgv

NextCalib ==
    \/ EnterCalibration
    \/ ExitCalibration
    \/ ToggleCalibration
    \/ ControlToySetup
    \/ PollTick
    \/ LoopBack

SpecCalib == InitCalib /\ [][NextCalib]_vars

\* C14: after any calls of enter_calibration_mode, exit_calibration_mode and
\* toggle_calibration_mode gameOn is true exactly when calibration_mode is
\* false; toggle_calibration_mode always changes calibration_mode; control_toy
\* enters its loop with calibration_mode false, gameOn true and calibrated
\* true, and no tick changes that.
C14_TwoStates ==
    [][/\ pc' \in CalibStates \ {"calib"} => gameOn' = ~calibration_mode'
       /\ (pc \in CalibStates /\ pc' = "toggled") =>
             calibration_mode' = ~calibration_mode
       /\ pc' \in Running => (~calibration_mode' /\ gameOn' /\ calibrated')]_vars

\* toggled out of a calibration that had turned the toy by 5 degrees
C14_Witness ==
    /\ pc = "toggled"
    /\ ~calibration_mode /\ gameOn /\ calibrated
    /\ toyHeading = 5 /\ base_heading = 0

\* ------------------------------------------------------------ manual pulses
\* the operator works the stick, R1 and L1: no speed button, no lap
PulseTick == Tick /\ speed' = speed
PulseElapse == Elapse(PulseTickMs) /\ since_battery' <= PulseHorizon

InitPulse ==
    /\ Start("control_toy", 0, 0, INITIAL_SPEED, NONE, 0)
    /\ tiles_in = << >>
    /\ argv = UsualArgv

NextPulse ==
    \/ ControlToySetup
    \/ PulseTick
    \/ PulseElapse

SpecPulse == InitPulse /\ [][NextPulse]_vars

\* the last n calls of l
LastCalls(l, n) == IF Len(l) < n THEN << >> ELSE SubSeq(l, Len(l) - n + 1, Len(l))

\* C16 as stated: a forward tick starts a pulse when no timer runs, goes on
\* driving while the timer is below 1 s and sends set_speed(0) and clears the
\* timer once it has reached 1 s; every tick whose reading is not forward
\* clears the timer.
C16_Original ==
    [][(pc = "loop" /\ pc' = "tick_done") =>
          LET t == timer_after(since_move_start, Duration(log')) IN
          /\ (forward(Y') /\ t # NONE /\ t >= PULSE_SECONDS * MsPerSecond) =>
                (since_move_start' = NONE /\ LastCalls(log', 1) = << SetSpeed(0) >>)
          /\ (forward(Y') /\ t = NONE) => since_move_start' = 0
          /\ ~forward(Y') => since_move_start' = NONE]_vars

\* C16 amended: a forward tick starts a pulse when no timer runs (timer set,
\* drive commanded), goes on driving while the timer is below 1 s, and once
\* the timer has reached 1 s commands the drive, sends set_speed(0) and
\* clears the timer, so that a forward tick leaves the timer cleared, at 0 or
\* below 1 s; between ticks the timer runs on. A neutral tick sends
\* set_speed(0) and clears the timer. A reverse tick leaves the timer as it
\* is: it runs on through reverse driving.
C16_Pulsed ==
    [][/\ (pc = "loop" /\ pc' = "tick_done") =>
             LET t == timer_after(since_move_start, Duration(log'))
                 drive == << SetHeading(base_heading'), SetSpeed(speed) >>
             IN
             /\ (forward(Y') /\ t = NONE) =>
                   (since_move_start' = 0 /\ LastCalls(log', 2) = drive)
             /\ (forward(Y') /\ t # NONE /\ t < PULSE_SECONDS * MsPerSecond) =>
                   (since_move_start' = t /\ LastCalls(log', 2) = drive)
             /\ (forward(Y') /\ t # NONE /\ t >= PULSE_SECONDS * MsPerSecond) =>
                   /\ since_move_start' = NONE
                   /\ LastCalls(log', 3) = drive \o << SetSpeed(0) >>
             /\ (~forward(Y') /\ ~reverse(Y')) =>
                   (since_move_start' = NONE /\ LastCalls(log', 1) = << SetSpeed(0) >>)
             /\ reverse(Y') => since_move_start' = t
       /\ (pc = "tick_done" /\ pc' = "loop") =>
             since_move_start' = timer_after(since_move_start, PulseTickMs)]_vars

\* a reverse tick has ended with the timer of an earlier forward tick running
C16_Witness ==
    /\ pc = "tick_done"
    /\ reverse(Y) /\ toySpeed = REVERSE_SPEED
    /\ since_move_start = PulseTickMs

\* ------------------------------------------------------------ speed buttons
SpeedButtons == {"2", "3", "4", "R2"}

\* a tick with any combination of speed buttons held, no battery check due
SpeedTick ==
    /\ pc = "loop"
    /\ ~rising_edge(phys1, previous_button)
    /\ ~battery_due(since_battery)
    /\ \E y \in AxisValues, held \in SUBSET SpeedButtons :
         TickTail(<< >>, phys1, held, y)
    /\ UNCHANGED <<calibration_mode, gameOn, calibrated, since_battery, envVars,
                   tileVars, scriptVars>>

\* the rest of the tick of a lap, with any combination of speed buttons held
SpeedAfterLap ==
    /\ pc = "lap"
    /\ segIdx = NSegments + 1
    /\ \E held \in SUBSET SpeedButtons :
         TickTail(log \o << SetSpeed(0) >>, 1, held, Y)
    /\ UNCHANGED <<calibration_mode, gameOn, calibrated, since_battery, envVars,
                   tileVars, scriptVars>>

InitSpeed ==
    /\ Start("control_toy", 0, 0, INITIAL_SPEED, NONE, 0)
    /\ tiles_in = << >>
    /\ argv = UsualArgv

NextSpeed ==
    \/ ControlToySetup
    \/ Press1
    \/ Release1
    \/ SpeedTick
    \/ TickLapStart
    \/ LapSegment
    \/ SpeedAfterLap
    \/ LoopBack

SpecSpeed == InitSpeed /\ [][NextSpeed]_vars

\* the speed button whose handler made the matrix call c
Shown(l, r, g) == \E i \in DOMAIN l : l[i] = SetMatrixCharacter(r, g)

\* C17: the stored speed is always one of 50, 90, 100, 150, 200; of the speed
\* buttons held in one tick the last one tested decides (R2 over 4 over 3
\* over 2); every speed commanded to the toy - by set_speed and by roll -
\* lies in 0..255.
C17_SpeedSet ==
    [][/\ speed' \in Speeds
       /\ (pc \in {"loop", "lap"} /\ pc' = "tick_done") =>
             speed' = IF Shown(log', 0, 255) THEN 90
                      ELSE IF Shown(log', 255, 0) THEN 200
                      ELSE IF Shown(log', 255, 50) THEN 150
                      ELSE IF Shown(log', 255, 100) THEN 100
                      ELSE speed
       /\ \A i \in DOMAIN log' :
             log'[i].op \in {"set_speed", "roll"} =>
                 /\ log'[i].a \in {0, REVERSE_SPEED, RUN_SPEED, speed'}
                 /\ log'[i].a \in 0..255
       /\ toySpeed' \in 0..255]_vars

\* buttons 2, 4 and R2 held together in a forward tick: driven at 90
C17_Witness ==
    /\ pc = "tick_done"
    /\ speed = 90
    /\ log = << SetMatrixCharacter(255, 100), SetMatrixCharacter(255, 0),
                SetMatrixCharacter(0, 255), SetHeading(0), SetSpeed(90) >>

====
